---------------------------- MODULE Spec2Model ----------------------------
(***************************************************************************)
(* Model of src/stream.py: a Streamlit script that parses a comma          *)
(* separated ticker list, downloads one daily price series per ticker      *)
(* through the cached function fetch_yfinance_data, shows last price and   *)
(* period variation metrics, two charts for a selected ticker and two      *)
(* download buttons.                                                       *)
(*                                                                         *)
(* Representation.                                                         *)
(*  - A Python str is a sequence of one-character strings.                 *)
(*  - A float is a record [kind, num, den]: the exact rational num/den,    *)
(*    or NaN (a missing value), or Inf / NegInf.                           *)
(*  - A DataFrame is [columns |-> <<names>>, rows |-> <<records>>].  Of    *)
(*    the provider's columns only Date and Close are carried: Open, High,  *)
(*    Low and Volume are copied through the code exactly like Close and no *)
(*    statement of the code reads them before plotting/export.             *)
(*  - The page is the sequence `out` of the elements emitted so far.       *)
(***************************************************************************)
EXTENDS Integers, Sequences, FiniteSets, TLC

VARIABLES
    tickers_input,   \* st.text_input value (line 133)
    start_date,      \* st.date_input value (line 134)
    end_date,        \* st.date_input value (line 135)
    show_ma,         \* st.checkbox value (line 136)
    ma_window,       \* st.slider value, or 20 (line 137)
    tickers,         \* the parsed list (line 140)
    market,          \* the provider's data: symbol -> Absent or closes
    df_final,        \* Stocks.df_final (lines 46, 49)
    out,             \* elements emitted on the page by the current run
    pc,              \* position of the script run
    cache,           \* entries of st.cache_data for fetch_yfinance_data
    provider_calls,  \* number of yf.download calls made so far
    fetched,         \* history: key -> age and response of its last returned call
    served,          \* history: what the last fetch_yfinance_data call did
    runs             \* number of script runs started

vars == <<tickers_input, start_date, end_date, show_ma, ma_window, tickers,
          market, df_final, out, pc, cache, provider_calls, fetched, served,
          runs>>

-----------------------------------------------------------------------------
(* Bounds *)

MaxInputLen == 4      \* longest text typed in the parse specification
MaxRows == 6          \* longest provider series in the fetch specification
MaxMetricRows == 2    \* longest provider series in the run specification
MaxRuns == 2          \* script runs in the cache specification
WindowSpan == 1       \* slider positions above its minimum

(* Program constants *)

TTL == 30             \* st.cache_data(ttl=30)
SliderMin == 5        \* st.slider(..., 5, 100, 20)
DefaultWindow == 20   \* ... if show_ma else 20

Ratio(n, d) == [kind |-> "num", num |-> n, den |-> d]
Num(n) == Ratio(n, 1)
NaN == [kind |-> "nan", num |-> 0, den |-> 1]
Inf == [kind |-> "inf", num |-> 1, den |-> 1]
NegInf == [kind |-> "inf", num |-> -1, den |-> 1]

\* What the provider has for one symbol: nothing (raw_data[ticker] raises
\* KeyError), or its closes by day.
Absent == [ok |-> FALSE, closes |-> <<>>]
Series(closes) == [ok |-> TRUE, closes |-> closes]

\* What yf.download gives: it raises, or a frame with the symbols' columns.
ProviderError == [error |-> TRUE, data |-> <<>>]
Response(data) == [error |-> FALSE, data |-> data]

-----------------------------------------------------------------------------
(* Strings: str.split(","), str.strip(), str.upper()  (line 140) *)

Whitespace == {" "}

UpperChar(c) ==
    CASE c = "a" -> "A"
      [] c = "b" -> "B"
      [] OTHER -> c

Upper(t) == [i \in 1..Len(t) |-> UpperChar(t[i])]

RECURSIVE LStrip(_)
LStrip(t) ==
    IF t # <<>> /\ Head(t) \in Whitespace THEN LStrip(Tail(t)) ELSE t

RECURSIVE RStrip(_)
RStrip(t) ==
    IF t # <<>> /\ t[Len(t)] \in Whitespace
    THEN RStrip(SubSeq(t, 1, Len(t) - 1))
    ELSE t

StripLeadingOnly(t) == LStrip(t)

Strip(t) == RStrip(LStrip(t))

\* s.split(","): always at least one piece; pieces may be empty.
RECURSIVE SplitFrom(_, _, _)
SplitFrom(s, i, piece) ==
    IF i > Len(s) THEN <<piece>>
    ELSE IF s[i] = "," THEN <<piece>> \o SplitFrom(s, i + 1, <<>>)
    ELSE SplitFrom(s, i + 1, Append(piece, s[i]))

Split(s) == SplitFrom(s, 1, <<>>)

RECURSIVE Comprehension(_, _)
Comprehension(pieces, i) ==
    IF i > Len(pieces) THEN <<>>
    ELSE IF Strip(pieces[i]) # <<>>
         THEN <<Upper(Strip(pieces[i]))>> \o Comprehension(pieces, i + 1)
         ELSE Comprehension(pieces, i + 1)

ParseTickers(s) == Comprehension(Split(s), 1)

-----------------------------------------------------------------------------
(* Sequences and frames *)

Range(s) == {s[i] : i \in 1..Len(s)}

RECURSIVE Flatten(_)
Flatten(ss) == IF ss = <<>> THEN <<>> ELSE Head(ss) \o Flatten(Tail(ss))

\* df[name] = values: a new column is appended on the right, an existing one
\* is overwritten.  A scalar is broadcast by the caller.
AddColumn(df, name, values) ==
    [columns |-> IF name \in Range(df.columns) THEN df.columns
                 ELSE Append(df.columns, name),
     rows |-> [i \in 1..Len(df.rows) |-> (name :> values[i]) @@ df.rows[i]]]

\* The columns of the frames of a list, in order of first appearance.
RECURSIVE UnionColumns(_, _)
UnionColumns(dfs, acc) ==
    IF dfs = <<>> THEN acc
    ELSE UnionColumns(Tail(dfs),
             acc \o SelectSeq(Head(dfs).columns, LAMBDA c : c \notin Range(acc)))

\* pd.concat(df_list, ignore_index=True) on a non-empty list: the frames' rows
\* one after the other, a column a frame lacks filled with NaN.
Concat(dfs) ==
    LET cols == UnionColumns(dfs, <<>>)
        Fill(r) == [c \in Range(cols) |-> IF c \in DOMAIN r THEN r[c] ELSE NaN]
        all == Flatten([k \in 1..Len(dfs) |-> dfs[k].rows])
    IN  [columns |-> cols, rows |-> [i \in 1..Len(all) |-> Fill(all[i])]]

-----------------------------------------------------------------------------
(* The provider: yf.download(tickers, start, end, group_by='ticker')        *)
(* (lines 109-115).  market[t] is Absent or the closes of t by day; the     *)
(* response holds, for each requested symbol, nothing or the rows of the    *)
(* days start..end-1 the provider has, in ascending date order.             *)

Download(mkt, tks, start, end) ==
    Response([t \in Range(tks) |->
        IF t \notin DOMAIN mkt \/ ~mkt[t].ok THEN [ok |-> FALSE, rows |-> <<>>]
        ELSE LET days == {d \in 1..Len(mkt[t].closes) : start <= d /\ d < end}
                 n == Cardinality(days)
             IN  [ok |-> TRUE,
                  rows |-> [i \in 1..n |->
                              [Date |-> start + i - 1,
                               Close |-> mkt[t].closes[start + i - 1]]]]])

-----------------------------------------------------------------------------
(* df["Close"].rolling(window=W).mean()  (line 123).  pandas slides a       *)
(* window over the column keeping the sum and the number of non-missing     *)
(* observations in it; min_periods defaults to the window, so a value is    *)
(* produced only when the window holds W observations.                      *)

Obs(c) == IF c.kind = "nan" THEN 0 ELSE 1
Val(c) == IF c.kind = "nan" THEN 0 ELSE c.num

RECURSIVE RollFrom(_, _, _, _, _)
RollFrom(closes, W, i, sum, nobs) ==
    IF i > Len(closes) THEN <<>>
    ELSE LET s1 == sum + Val(closes[i])
             n1 == nobs + Obs(closes[i])
             s2 == IF i > W THEN s1 - Val(closes[i - W]) ELSE s1
             n2 == IF i > W THEN n1 - Obs(closes[i - W]) ELSE n1
         IN  <<IF n2 >= W THEN Ratio(s2, n2) ELSE NaN>>
               \o RollFrom(closes, W, i + 1, s2, n2)

\* The same with the oldest observation leaving one row late.
RECURSIVE RollFromLate(_, _, _, _, _)
RollFromLate(closes, W, i, sum, nobs) ==
    IF i > Len(closes) THEN <<>>
    ELSE LET s1 == sum + Val(closes[i])
             n1 == nobs + Obs(closes[i])
             s2 == IF i > W + 1 THEN s1 - Val(closes[i - W - 1]) ELSE s1
             n2 == IF i > W + 1 THEN n1 - Obs(closes[i - W - 1]) ELSE n1
         IN  <<IF n2 >= W THEN Ratio(s2, n2) ELSE NaN>>
               \o RollFromLate(closes, W, i + 1, s2, n2)

RollingMeanWide(closes, W) == RollFromLate(closes, W, 1, 0, 0)

RollingMean(closes, W) == RollFrom(closes, W, 1, 0, 0)

-----------------------------------------------------------------------------
(* fetch_yfinance_data, the function body (lines 108-127) *)

\* lines 120-123: raw_data[ticker].reset_index(), the Ticker and MA columns
FrameNoMaWhenShort(series, ticker, show, W) ==
    LET df0 == [columns |-> <<"Date", "Close">>, rows |-> series]
        df1 == AddColumn(df0, "Ticker", [i \in 1..Len(series) |-> ticker])
        closes == [i \in 1..Len(series) |-> series[i].Close]
    IN  IF show /\ Len(series) >= W
        THEN AddColumn(df1, "MA", RollingMean(closes, W)) ELSE df1

Frame(series, ticker, show, W) ==
    LET df0 == [columns |-> <<"Date", "Close">>, rows |-> series]
        df1 == AddColumn(df0, "Ticker", [i \in 1..Len(series) |-> ticker])
        closes == [i \in 1..Len(series) |-> df1.rows[i].Close]
    IN  IF show THEN AddColumn(df1, "MA", RollingMean(closes, W)) ELSE df1

\* lines 117-126: the loop; a KeyError is caught and reported per ticker
RECURSIVE FetchLoop(_, _, _, _, _, _)
FetchLoop(tks, raw, show, W, df_list, warnings) ==
    IF tks = <<>> THEN [df_list |-> df_list, warnings |-> warnings]
    ELSE IF ~raw.data[Head(tks)].ok
         THEN FetchLoop(Tail(tks), raw, show, W, df_list,
                        Append(warnings, Head(tks)))
         ELSE FetchLoop(Tail(tks), raw, show, W,
                        Append(df_list, Frame(raw.data[Head(tks)].rows,
                                              Head(tks), show, W)),
                        warnings)

NoTable == [columns |-> <<>>, rows |-> <<>>]    \* pd.DataFrame()

\* The call's outcome: raised or returned, the table, the st.warning calls.
\* raw is the provider's response, or ProviderError when yf.download raises;
\* pd.concat raises ValueError on an empty list (line 127).
FetchBody(tks, show, W, raw) ==
    IF raw.error
    THEN [raised |-> TRUE, table |-> NoTable, warnings |-> <<>>]
    ELSE LET l == FetchLoop(tks, raw, show, W, <<>>, <<>>)
         IN  IF l.df_list = <<>>
             THEN [raised |-> TRUE, table |-> NoTable, warnings |-> l.warnings]
             ELSE [raised |-> FALSE, table |-> Concat(l.df_list),
                   warnings |-> l.warnings]

-----------------------------------------------------------------------------
(* @st.cache_data(ttl=30)  (line 107): the function's results are kept per   *)
(* argument tuple; an entry is served while its age is below the ttl, and    *)
(* the st.warning calls recorded with it are replayed.  A call that raises   *)
(* stores nothing.                                                           *)

CacheKeyNoShowMa(tks, start, end, show, W) == <<tks, start, end, W>>

CacheKey(tks, start, end, show, W) == <<tks, start, end, show, W>>

Expired(entry) == entry.age >= TTL

CacheHit(c, key) == key \in DOMAIN c /\ ~Expired(c[key])

-----------------------------------------------------------------------------
(* Page elements *)

Element(kind, ticker, value) == [kind |-> kind, ticker |-> ticker, value |-> value]

NoTicker == <<>>

LoadWarnings(ws) ==        \* line 126
    [i \in 1..Len(ws) |-> Element("warning_load", ws[i], NaN)]

\* f"{x:.2f}": the nearest number of hundredths; nan and inf print as such.
Format2f(x) ==
    IF x.kind = "num"
    THEN Ratio((2 * 100 * x.num + x.den) \div (2 * x.den), 100)
    ELSE x

-----------------------------------------------------------------------------
(* Stocks.show_metrics  (lines 57-73) *)

\* self.df_final[self.df_final["Ticker"] == ticker]["Close"].dropna()
\* (a frame without these columns raises KeyError, which both loops catch
\* exactly like the IndexError of an empty selection)
CloseSeries(df, ticker) ==
    IF ~({"Ticker", "Close"} \subseteq Range(df.columns)) THEN <<>>
    ELSE LET sel == SelectSeq(df.rows,
                       LAMBDA r : r.Ticker = ticker /\ r.Close.kind # "nan")
         IN  [i \in 1..Len(sel) |-> sel[i].Close]

\* numpy float64 arithmetic of ((last - first) / first) * 100: a division by
\* zero gives inf, -inf or nan (with a RuntimeWarning), it does not raise.
Variation(first, last) ==
    IF first.num = 0
    THEN (IF last.num > 0 THEN Inf ELSE IF last.num < 0 THEN NegInf ELSE NaN)
    ELSE IF first.num > 0 THEN Ratio((last.num - first.num) * 100, first.num)
         ELSE Ratio((first.num - last.num) * 100, -first.num)

\* lines 60-65
PriceFirstRow(df, ticker) ==
    LET series == CloseSeries(df, ticker)
    IN  IF series = <<>> THEN Element("warning_price", ticker, NaN)
        ELSE Element("metric_price", ticker, Format2f(series[1]))

PriceElement(df, ticker) ==
    LET series == CloseSeries(df, ticker)
    IN  IF series = <<>> THEN Element("warning_price", ticker, NaN)
        ELSE Element("metric_price", ticker, Format2f(series[Len(series)]))

\* lines 67-73
VariationElements(df, ticker) ==
    LET series == CloseSeries(df, ticker)
    IN  IF series = <<>> THEN <<>>
        ELSE <<Element("metric_variation", ticker,
                       Format2f(Variation(series[1], series[Len(series)])))>>

ShowMetricsElements(tks, df) ==
    [i \in 1..Len(tks) |-> PriceElement(df, tks[i])]
      \o Flatten([i \in 1..Len(tks) |-> VariationElements(df, tks[i])])

-----------------------------------------------------------------------------
(* Stocks.plot_graphs  (lines 75-90) and Stocks.export_data (lines 92-103) *)

\* df["MA"] raises KeyError when the table has no MA column (line 82)
PlotRaises(df, show) == show /\ "MA" \notin Range(df.columns)

PlotElements(df, selected, show) ==
    LET sel == SelectSeq(df.rows, LAMBDA r : r.Ticker = selected)
    IN  << Element("chart_price", selected,
                   [traces |-> IF show THEN <<"Close", "MA">> ELSE <<"Close">>,
                    rows |-> sel]),
           Element("chart_volume", selected, [traces |-> <<"Volume">>, rows |-> sel]) >>

\* to_csv(index=False) / to_excel(index=False): the header and the rows
ExportElements(df) ==
    << Element("download", <<"dados_acoes.csv">>, df),
       Element("download", <<"dados_acoes.xlsx">>, df) >>

-----------------------------------------------------------------------------
(* The script run  (lines 130-156) *)

\* lines 143-155: an exception of fetch_data leaves the try block for the
\* handler; otherwise the run goes on with show_metrics.
AfterFetchSwallowed(raised) == "metrics"

AfterFetch(raised) == IF raised THEN "except" ELSE "metrics"

NotCalled == [called |-> FALSE, hit |-> FALSE, raised |-> FALSE,
              raw |-> ProviderError, warnings |-> <<>>]

\* lines 140 and 144: the ticker list is parsed and the Stocks object built
\* with an empty df_final.
StartRun ==
    /\ pc = "input"
    /\ tickers' = ParseTickers(tickers_input)
    /\ df_final' = NoTable
    /\ pc' = "fetch"
    /\ UNCHANGED <<tickers_input, start_date, end_date, show_ma, ma_window,
                   market, out, cache, provider_calls, fetched, served, runs>>

\* line 145: Stocks.fetch_data (lines 48-55) calls the cached function.  On a
\* hit the stored table is returned and its warnings replayed; on a miss the
\* body runs against the provider, which may fail as a whole.
Fetch ==
    /\ pc = "fetch"
    /\ LET key == CacheKey(tickers, start_date, end_date, show_ma, ma_window)
       IN  \/ /\ CacheHit(cache, key)
              /\ df_final' = cache[key].table
              /\ out' = out \o LoadWarnings(cache[key].warnings)
              /\ pc' = "metrics"
              /\ served' = [called |-> TRUE, hit |-> TRUE, raised |-> FALSE,
                            raw |-> ProviderError,
                            warnings |-> cache[key].warnings]
              /\ UNCHANGED <<cache, provider_calls, fetched>>
           \/ /\ ~CacheHit(cache, key)
              /\ \E down \in BOOLEAN :
                   LET raw == IF down THEN ProviderError
                              ELSE Download(market, tickers, start_date, end_date)
                       r == FetchBody(tickers, show_ma, ma_window, raw)
                       exact == <<tickers, start_date, end_date, show_ma, ma_window>>
                   IN  /\ provider_calls' = provider_calls + 1
                       /\ out' = out \o LoadWarnings(r.warnings)
                       /\ served' = [called |-> TRUE, hit |-> FALSE,
                                     raised |-> r.raised, raw |-> raw,
                                     warnings |-> r.warnings]
                       /\ pc' = AfterFetch(r.raised)
                       /\ IF r.raised
                          THEN UNCHANGED <<df_final, cache, fetched>>
                          ELSE /\ df_final' = r.table
                               /\ cache' = (key :> [table |-> r.table,
                                                    warnings |-> r.warnings,
                                                    age |-> 0]) @@ cache
                               /\ fetched' = (exact :> [age |-> 0, raw |-> raw])
                                                @@ fetched
    /\ UNCHANGED <<tickers_input, start_date, end_date, show_ma, ma_window,
                   tickers, market, runs>>

\* line 146
ShowMetrics ==
    /\ pc = "metrics"
    /\ out' = out \o ShowMetricsElements(tickers, df_final)
    /\ pc' = "select"
    /\ UNCHANGED <<tickers_input, start_date, end_date, show_ma, ma_window,
                   tickers, market, df_final, cache, provider_calls, fetched,
                   served, runs>>

\* lines 148-150: the selectbox over the tickers, then the two charts of the
\* ticker the user has selected.
SelectAndPlot ==
    /\ pc = "select"
    /\ \E selected \in Range(tickers) :
         LET box == Element("selectbox", selected, NaN)
         IN  IF PlotRaises(df_final, show_ma)
             THEN /\ out' = Append(out, box)
                  /\ pc' = "except"
             ELSE /\ out' = Append(out, box)
                               \o PlotElements(df_final, selected, show_ma)
                  /\ pc' = "export"
    /\ UNCHANGED <<tickers_input, start_date, end_date, show_ma, ma_window,
                   tickers, market, df_final, cache, provider_calls, fetched,
                   served, runs>>

\* lines 152-153
ExportData ==
    /\ pc = "export"
    /\ out' = out \o ExportElements(df_final)
    /\ pc' = "done"
    /\ UNCHANGED <<tickers_input, start_date, end_date, show_ma, ma_window,
                   tickers, market, df_final, cache, provider_calls, fetched,
                   served, runs>>

\* lines 155-156
HandleError ==
    /\ pc = "except"
    /\ out' = Append(out, Element("error", NoTicker, NaN))
    /\ pc' = "done"
    /\ UNCHANGED <<tickers_input, start_date, end_date, show_ma, ma_window,
                   tickers, market, df_final, cache, provider_calls, fetched,
                   served, runs>>

-----------------------------------------------------------------------------
(* The environment: the user, the clock and the provider's data *)

A == <<"A">>
B == <<"B">>
Symbols == {A, B}

SliderValues == (SliderMin .. SliderMin + WindowSpan) \cup {DefaultWindow}

Dates == {1, 2, 3}

\* The texts the user types in the run specifications.
TickerInputs ==
    { <<"A">>, <<"A", ",", "B">>, <<"b", ",", " ", "a">>, <<"A", ",", "A">>, <<>> }

\* A finished run is followed by a rerun when the user changes one widget (or
\* asks for a rerun): the page is cleared and the script starts again.
Rerun ==
    /\ pc = "done"
    /\ runs < MaxRuns
    /\ \/ UNCHANGED <<tickers_input, start_date, end_date, show_ma, ma_window>>
       \/ /\ tickers_input' \in TickerInputs \ {tickers_input}
          /\ UNCHANGED <<start_date, end_date, show_ma, ma_window>>
       \/ /\ start_date' \in Dates \ {start_date}
          /\ UNCHANGED <<tickers_input, end_date, show_ma, ma_window>>
       \/ /\ end_date' \in Dates \ {end_date}
          /\ UNCHANGED <<tickers_input, start_date, show_ma, ma_window>>
       \/ /\ show_ma' = ~show_ma
          /\ ma_window' = DefaultWindow
          /\ UNCHANGED <<tickers_input, start_date, end_date>>
       \/ /\ show_ma
          /\ ma_window' \in SliderValues \ {ma_window}
          /\ UNCHANGED <<tickers_input, start_date, end_date, show_ma>>
    /\ runs' = runs + 1
    /\ out' = <<>>
    /\ pc' = "input"
    /\ served' = NotCalled
    /\ UNCHANGED <<tickers, market, df_final, cache, provider_calls, fetched>>

\* Time passes between runs: every entry ages (ages saturate at the ttl).
TickSteps == {10, 19}

Older(age, d) == IF age + d >= TTL THEN TTL ELSE age + d

Tick ==
    /\ pc = "done"
    /\ \E d \in TickSteps :
         /\ cache' = [k \in DOMAIN cache |->
                        [cache[k] EXCEPT !.age = Older(cache[k].age, d)]]
         /\ fetched' = [k \in DOMAIN fetched |->
                        [fetched[k] EXCEPT !.age = Older(fetched[k].age, d)]]
    /\ cache' # cache
    /\ UNCHANGED <<tickers_input, start_date, end_date, show_ma, ma_window,
                   tickers, market, df_final, out, pc, provider_calls, served,
                   runs>>


\* The provider's data changes between runs.
CacheMarkets ==
    { (A :> Series(<<Num(1), Num(2)>>)) @@ (B :> Series(<<Num(2), Num(1)>>)),
      (A :> Series(<<Num(2), Num(2)>>)) @@ (B :> Absent) }

MarketChange ==
    /\ pc = "done"
    /\ market' \in CacheMarkets \ {market}
    /\ UNCHANGED <<tickers_input, start_date, end_date, show_ma, ma_window,
                   tickers, df_final, out, pc, cache, provider_calls, fetched,
                   served, runs>>

-----------------------------------------------------------------------------
(* Specifications *)

SeqsUpTo(S, n) == UNION {[1..k -> S] : k \in 0..n}

\* Spec: the session.  The first run has the widgets' initial values; reruns,
\* the clock and the provider's data follow.
Init ==
    /\ tickers_input = <<"A", ",", "B">>
    /\ start_date = 1
    /\ end_date = 3
    /\ show_ma = TRUE
    /\ ma_window = DefaultWindow
    /\ tickers = <<>>
    /\ market \in CacheMarkets
    /\ df_final = NoTable
    /\ out = <<>>
    /\ pc = "input"
    /\ cache = <<>>
    /\ provider_calls = 0
    /\ fetched = <<>>
    /\ served = NotCalled
    /\ runs = 1

Next ==
    \/ StartRun
    \/ Fetch
    \/ ShowMetrics
    \/ SelectAndPlot
    \/ ExportData
    \/ HandleError
    \/ Rerun
    \/ Tick
    \/ MarketChange

Spec == Init /\ [][Next]_vars

\* SpecParse: line 140 on every text over a small alphabet.
Alphabet == {"a", "B", ",", " "}

InitParse ==
    /\ tickers_input \in SeqsUpTo(Alphabet, MaxInputLen)
    /\ start_date = 1
    /\ end_date = 3
    /\ show_ma = TRUE
    /\ ma_window = DefaultWindow
    /\ tickers = <<>>
    /\ market = [t \in Symbols |-> Absent]
    /\ df_final = NoTable
    /\ out = <<>>
    /\ pc = "input"
    /\ cache = <<>>
    /\ provider_calls = 0
    /\ fetched = <<>>
    /\ served = NotCalled
    /\ runs = 1

NextParse == StartRun

SpecParse == InitParse /\ [][NextParse]_vars

\* SpecFetch: one call of fetch_yfinance_data with an empty cache, on series
\* long enough for the moving average.
MaCloses == {NaN, Num(1), Num(2)}

FetchInputs == TickerInputs \ {<<>>}

FetchWidgetPairs ==
    {<<FALSE, DefaultWindow>>} \cup ({TRUE} \X (SliderMin .. SliderMin + WindowSpan))

FetchMarkets ==
    { (A :> a) @@ (B :> b) :
        a \in {Absent} \cup {Series(c) : c \in SeqsUpTo(MaCloses, MaxRows)},
        b \in {Absent, Series([i \in 1..MaxRows |-> Num(3)])} }

InitFetch ==
    /\ tickers_input \in FetchInputs
    /\ start_date = 1
    /\ end_date = MaxRows + 1
    /\ \E w \in FetchWidgetPairs : show_ma = w[1] /\ ma_window = w[2]
    /\ tickers = <<>>
    /\ market \in FetchMarkets
    /\ df_final = NoTable
    /\ out = <<>>
    /\ pc = "input"
    /\ cache = <<>>
    /\ provider_calls = 0
    /\ fetched = <<>>
    /\ served = NotCalled
    /\ runs = 1

NextFetch ==
    \/ StartRun
    \/ Fetch

SpecFetch == InitFetch /\ [][NextFetch]_vars

\* SpecRun: one run of the script, on short series with missing and zero
\* closes.
MetricCloses == {NaN, Num(0), Num(1), Num(2)}

RunMarkets ==
    [Symbols -> {Absent} \cup {Series(c) : c \in SeqsUpTo(MetricCloses, MaxMetricRows)}]

InitRun ==
    /\ tickers_input \in TickerInputs
    /\ start_date = 1
    /\ end_date = MaxMetricRows + 1
    /\ \E w \in {<<FALSE, DefaultWindow>>, <<TRUE, SliderMin>>} :
          show_ma = w[1] /\ ma_window = w[2]
    /\ tickers = <<>>
    /\ market \in RunMarkets
    /\ df_final = NoTable
    /\ out = <<>>
    /\ pc = "input"
    /\ cache = <<>>
    /\ provider_calls = 0
    /\ fetched = <<>>
    /\ served = NotCalled
    /\ runs = 1

NextRun ==
    \/ StartRun
    \/ Fetch
    \/ ShowMetrics
    \/ SelectAndPlot
    \/ ExportData
    \/ HandleError

SpecRun == InitRun /\ [][NextRun]_vars

-----------------------------------------------------------------------------
(* Properties *)

Min(S) == CHOOSE x \in S : \A y \in S : x <= y
Max(S) == CHOOSE x \in S : \A y \in S : x >= y

Parsed == pc # "input"

\* A call of the function body has returned a table.
Returned == served.called /\ ~served.raised

\* A call of the function body ran against a provider response.
BodyRan == served.called /\ ~served.hit /\ ~served.raw.error

\* C10: the ticker list holds exactly the comma-separated entries of the text
\* that are non-empty after trimming, in input order, each trimmed and in
\* upper case; no element is empty or starts or ends with whitespace.
C10_ParsedEntries ==
    Parsed =>
      LET s == tickers_input
          n == Len(s)
          Cuts == {0, n + 1} \cup {i \in 1..n : s[i] = ","}
          NextCut(lo) == Min({c \in Cuts : c > lo})
          Text(lo) == {p \in (lo + 1)..(NextCut(lo) - 1) : s[p] # " "}
          Valid == {lo \in Cuts \ {n + 1} : Text(lo) # {}}
          Rank(lo) == Cardinality({x \in Valid : x <= lo})
          Up(c) == IF c = "a" THEN "A" ELSE IF c = "b" THEN "B" ELSE c
      IN  /\ Len(tickers) = Cardinality(Valid)
          /\ \A lo \in Valid :
               LET f == Min(Text(lo))
                   l == Max(Text(lo))
                   t == tickers[Rank(lo)]
               IN  /\ Len(t) = l - f + 1
                   /\ \A i \in 1..Len(t) : t[i] = Up(s[f + i - 1])
          /\ \A k \in 1..Len(tickers) :
               /\ tickers[k] # <<>>
               /\ tickers[k][1] # " "
               /\ tickers[k][Len(tickers[k])] # " "

\* C10 witness: an empty entry is discarded, an entry is trimmed and upper-cased.
C10_Witness ==
    /\ Parsed
    /\ tickers_input = <<" ", "a", " ", ",">>
    /\ tickers = << <<"A">> >>

\* The provider has nothing for the symbol (raw_data[ticker] raises).
Failed(t) == t \notin DOMAIN market \/ ~market[t].ok

\* The rows the provider has for a symbol in the requested range.
ProviderRows(t) == Download(market, <<t>>, start_date, end_date).data[t].rows

LoadWarningsIn(o) == SelectSeq(o, LAMBDA e : e.kind = "warning_load")

\* C1: failures of individual tickers never abort fetch_yfinance_data: the
\* call on a non-empty list returns a table, one warning is emitted per failed
\* ticker, the table has no row of a failed ticker and has all rows of every
\* retrieved ticker, whatever the number of failed tickers.
C1_TickerFailuresNeverAbort ==
    (BodyRan /\ tickers # <<>>) =>
      /\ ~served.raised
      /\ Len(LoadWarningsIn(out))
           = Cardinality({k \in 1..Len(tickers) : Failed(tickers[k])})
      /\ \A i \in 1..Len(df_final.rows) : ~Failed(df_final.rows[i].Ticker)
      /\ \A t \in Range(tickers) :
           ~Failed(t) =>
             \A j \in 1..Len(ProviderRows(t)) :
               \E i \in 1..Len(df_final.rows) :
                 /\ df_final.rows[i].Ticker = t
                 /\ df_final.rows[i].Date = ProviderRows(t)[j].Date
                 /\ df_final.rows[i].Close = ProviderRows(t)[j].Close

FirstIndex(seq, x) == Min({k \in 1..Len(seq) : seq[k] = x})

\* C3: the returned table has its rows grouped by ticker in request order and,
\* within a ticker, strictly ascending dates without duplicates, also when the
\* text names a symbol more than once.
C3_GroupedAndAscending ==
    (Returned /\ tickers # <<>>) =>
      \A i, j \in 1..Len(df_final.rows) :
        i < j =>
          LET ri == df_final.rows[i]
              rj == df_final.rows[j]
          IN  /\ FirstIndex(tickers, ri.Ticker) <= FirstIndex(tickers, rj.Ticker)
              /\ ri.Ticker = rj.Ticker => ri.Date < rj.Date

\* The closes of a ticker in the table, by date.
CloseAt(t, d) ==
    LET r == CHOOSE r \in Range(df_final.rows) : r.Ticker = t /\ r.Date = d
    IN  r.Close

DatesOf(t) == {r.Date : r \in {x \in Range(df_final.rows) : x.Ticker = t}}

RECURSIVE SumOver(_, _)
SumOver(f, S) ==
    IF S = {} THEN 0
    ELSE LET x == CHOOSE x \in S : TRUE IN f[x] + SumOver(f, S \ {x})

\* C4: with show_ma, the MA of the row of rank i (by date, within its ticker)
\* is absent when i < W-1 and otherwise is the mean of the closes of the same
\* ticker at ranks [i-W+1, i] (missing as soon as one of them is missing); no
\* later close and no close of another ticker enters it.
C4_TrailingMean ==
    (Returned /\ show_ma) =>
      \A k \in 1..Len(df_final.rows) :
        LET r == df_final.rows[k]
            W == ma_window
            window == {d \in DatesOf(r.Ticker) :
                         Cardinality({e \in DatesOf(r.Ticker) : d < e /\ e <= r.Date}) < W
                         /\ d <= r.Date}
            rank == Cardinality({d \in DatesOf(r.Ticker) : d <= r.Date})
            closes == [d \in window |-> CloseAt(r.Ticker, d)]
        IN  IF rank < W \/ \E d \in window : closes[d].kind = "nan"
            THEN r.MA = NaN
            ELSE /\ r.MA.kind = "num"
                 /\ r.MA.den > 0
                 /\ r.MA.num * W
                      = r.MA.den * SumOver([d \in window |-> closes[d].num], window)

\* C4 witness: a ticker with more rows than the window whose average moves
\* when the window slides, next to another ticker with other closes.
C4_Witness ==
    /\ Returned /\ show_ma /\ ma_window = SliderMin
    /\ tickers = <<B, A>>
    /\ Len(df_final.rows) = 2 * (SliderMin + 1)
    /\ LET r5 == df_final.rows[2 * SliderMin + 1]
           r6 == df_final.rows[2 * SliderMin + 2]
       IN  /\ r5.Ticker = A /\ r6.Ticker = A
           /\ r5.MA.kind = "num" /\ r6.MA.kind = "num"
           /\ r5.MA.num * r6.MA.den # r6.MA.num * r5.MA.den

\* C6: the call on the list without one of its tickers (the rest not empty)
\* returns the table of the full list with that ticker's rows deleted.
C6_DroppingOneTicker ==
    (BodyRan /\ Returned) =>
      \A t \in Range(tickers) :
        LET rest == SelectSeq(tickers, LAMBDA x : x # t)
            r == FetchBody(rest, show_ma, ma_window,
                           Download(market, rest, start_date, end_date))
        IN  rest # <<>> =>
            /\ ~r.raised
            /\ r.table.columns = df_final.columns
            /\ r.table.rows = SelectSeq(df_final.rows, LAMBDA x : x.Ticker # t)

\* C7: the returned table has an MA column if and only if show_ma; without
\* show_ma no row carries an MA value, with it every row carries an MA entry
\* (a value or a gap).
C7_MaColumnIffShowMa ==
    Returned =>
      /\ ("MA" \in Range(df_final.columns)) <=> show_ma
      /\ \A i \in 1..Len(df_final.rows) :
           /\ ("MA" \in DOMAIN df_final.rows[i]) <=> show_ma
           /\ show_ma => df_final.rows[i].MA.kind \in {"num", "nan"}

\* C7 witness: a table with the column, holding gaps and a value.
C7_Witness ==
    /\ Returned /\ show_ma
    /\ \E i, j \in 1..Len(df_final.rows) :
         /\ df_final.rows[i].MA.kind = "nan"
         /\ df_final.rows[j].MA.kind = "num"

-----------------------------------------------------------------------------
(* Properties of a run *)

Shown(kinds) == SelectSeq(out, LAMBDA e : e.kind \in kinds)

RenderKinds ==
    {"metric_price", "metric_variation", "selectbox", "chart_price",
     "chart_volume", "download"}

\* C2: when the aggregation call raises, the run reports exactly one error and
\* renders nothing else: no metric, selector, chart or download control is
\* emitted before or after it, and df_final is still the empty table.
C2_FailedFetchRendersOnlyError ==
    (served.called /\ served.raised) =>
      /\ Shown(RenderKinds) = <<>>
      /\ df_final = NoTable
      /\ pc \in {"except", "done"}
      /\ Len(Shown({"error"})) = (IF pc = "done" THEN 1 ELSE 0)

\* C2 witness: a finished run whose fetch raised after warning about a ticker.
C2_Witness ==
    /\ served.called /\ served.raised
    /\ pc = "done"
    /\ Len(out) = 2
    /\ out[1].kind = "warning_load"
    /\ out[2].kind = "error"

\* show_metrics has run.
MetricsShown == Returned /\ pc \in {"select", "export", "done"}

\* The non-missing closes of a ticker in the table, in table order.
ValidRows(t) ==
    SelectSeq(df_final.rows, LAMBDA r : r.Ticker = t /\ r.Close.kind = "num")

Abs(x) == IF x < 0 THEN -x ELSE x

\* C5: for each requested ticker with non-missing closes c0..cn, the variation
\* metric (cn - c0)/c0 * 100 is emitted (to two decimals) when there are at
\* least 2 valid closes and c0 # 0, and no variation metric is emitted
\* otherwise.
C5_VariationEmittedOrSkipped ==
    MetricsShown =>
      \A t \in Range(tickers) :
        LET valid == ValidRows(t)
            els == SelectSeq(out, LAMBDA e : e.kind = "metric_variation" /\ e.ticker = t)
            asked == Cardinality({k \in 1..Len(tickers) : tickers[k] = t})
        IN  IF Len(valid) >= 2 /\ valid[1].Close.num # 0
            THEN LET c0 == valid[1].Close.num
                     cn == valid[Len(valid)].Close.num
                 IN  /\ Len(els) = asked
                     /\ \A i \in 1..Len(els) :
                          /\ els[i].value.kind = "num"
                          /\ els[i].value.den = 100
                          /\ 2 * Abs(els[i].value.num * c0 - 10000 * (cn - c0))
                               <= Abs(c0)
            ELSE els = <<>>

\* C9: for each requested ticker in request order, the last-price metric shows
\* the close of its chronologically last row with a close; a ticker without
\* such a row gets a 'not found' warning instead; no exception escapes and
\* every ticker gets its element.
C9_LastPriceOrWarning ==
    MetricsShown =>
      LET prices == Shown({"metric_price", "warning_price"})
      IN  /\ Len(prices) = Len(tickers)
          /\ \A k \in 1..Len(tickers) :
               LET t == tickers[k]
                   rows == {r \in Range(df_final.rows) :
                              r.Ticker = t /\ r.Close.kind = "num"}
               IN  /\ prices[k].ticker = t
                   /\ IF rows = {}
                      THEN prices[k].kind = "warning_price"
                      ELSE LET last == CHOOSE r \in rows :
                                          \A x \in rows : x.Date <= r.Date
                           IN  /\ prices[k].kind = "metric_price"
                               /\ prices[k].value.kind = "num"
                               /\ prices[k].value.den = 100
                               /\ prices[k].value.num * last.Close.den
                                    = last.Close.num * prices[k].value.den

\* C9 witness: one ticker was excluded and gets the warning, the other's last
\* row has no close and its metric shows the close before it.
C9_Witness ==
    /\ MetricsShown
    /\ tickers = <<A, B>>
    /\ ~market[A].ok
    /\ market[B] = Series(<<Num(1), NaN>>)
    /\ Shown({"metric_price", "warning_price"})
         = << Element("warning_price", A, NaN),
              Element("metric_price", B, Ratio(100, 100)) >>

-----------------------------------------------------------------------------
(* Properties of the cache *)

\* C8: the cache is keyed by the exact tuple (tickers, start_date, end_date,
\* show_ma, ma_window) with a ttl of 30: a request whose tuple had a call
\* return less than the ttl ago is served without a provider call; any other
\* request makes one; and the table served is the one the function body
\* derives for the tuple from the provider response it was built from.
C8_CacheKeyedWithTtl ==
    [][ (pc = "fetch" /\ pc' # "fetch") =>
          LET key == <<tickers, start_date, end_date, show_ma, ma_window>>
              fresh == key \in DOMAIN fetched /\ fetched[key].age < TTL
          IN  /\ fresh =>
                   /\ provider_calls' = provider_calls
                   /\ pc' = "metrics"
                   /\ df_final' = FetchBody(tickers, show_ma, ma_window,
                                            fetched[key].raw).table
              /\ ~fresh =>
                   /\ provider_calls' = provider_calls + 1
                   /\ pc' = "metrics" =>
                        df_final' = FetchBody(tickers, show_ma, ma_window,
                                              served'.raw).table
      ]_vars

\* C8 witness: a request served from an entry 29 s old whose table is not what
\* the provider would give now.
C8_Witness ==
    /\ served.called /\ served.hit
    /\ LET key == <<tickers, start_date, end_date, show_ma, ma_window>>
       IN  /\ key \in DOMAIN fetched
           /\ fetched[key].age = TTL - 1
           /\ fetched[key].raw # Download(market, tickers, start_date, end_date)
    /\ provider_calls = 1

=============================================================================
